---- MODULE Spec2Model ----
(***************************************************************************)
(* Model of surreal.replay.uniform_replay.UniformReplay: a bounded replay  *)
(* memory kept in a Python list (_memory) with a write index (_next_idx).  *)
(* Experiences are opaque to the store; here the i-th experience inserted  *)
(* is the number i, so that insertion order can be read off the records.   *)
(***************************************************************************)
EXTENDS Integers, Sequences, FiniteSets, TLC

\* ---- bounds of the model ----
MaxCap == 3        \* memory_size ranges over 1..MaxCap
MaxInserts == 6    \* at most this many _insert calls in one run
MaxBatch == 2      \* batch_size ranges over -1..MaxBatch
MaxStart == 2      \* sampling_start_size ranges over 0..MaxStart
MaxNeg == 2        \* negative evict_size ranges over -MaxNeg..-1
MaxAttempts == 3   \* attempts and sleeps of the create loop are counted up to this
MaxCalls == 4      \* at most this many calls in a run of the two threads

VARIABLES
  memory,               \* self._memory, a sequence of experiences
  next_idx,             \* self._next_idx (0-based, as in the code)
  maxsize,              \* self._maxsize
  sampling_start_size,  \* self._sampling_start_size
  op,                   \* the last call: "init", "insert", "evict", "sample", "ready", "len"
  arg,                  \* its argument (experience, evict_size or batch_size; 0 if none)
  ret,                  \* the list returned by the last _insert/_sample/_evict
  ready,                \* the value returned by the last start_sample_condition
  length,               \* the value returned by the last __len__
  err,                  \* the exception raised by the last call, "none" if it returned
  pre_memory,           \* self._memory right before the last call
  pre_idx,              \* self._next_idx right before the last call
  ninserted,            \* number of _insert calls so far
  evict_called,         \* TRUE once _evict has been called
  returned,             \* returned[x]: how often x was in a list returned by _insert/_evict
  serialized,           \* TRUE when the owner runs every call under one lock
  thr,                  \* thr[t]: position and local variables of the call thread t is in
  ncalls,               \* number of calls the threads have started
  kube                  \* the Kubectl.create call: position, loop state, cluster state

vars == <<memory, next_idx, maxsize, sampling_start_size, op, arg, ret, ready,
          length, err, pre_memory, pre_idx, ninserted, evict_called, returned,
          serialized, thr, ncalls, kube>>

\* ---- Python list primitives ----

\* clamp a slice bound the way list slicing does (negative bounds count from the end)
SliceBound(i, n) ==
  IF i < 0 THEN (IF i + n < 0 THEN 0 ELSE i + n) ELSE (IF i > n THEN n ELSE i)

\* s[lo:hi]
PySlice(s, lo, hi) ==
  LET a == SliceBound(lo, Len(s))
      b == SliceBound(hi, Len(s))
  IN IF a >= b THEN <<>> ELSE SubSeq(s, a + 1, b)

\* del s[lo:hi]
PyDelSlice(s, lo, hi) ==
  LET a == SliceBound(lo, Len(s))
      b == SliceBound(hi, Len(s))
  IN IF a >= b THEN s ELSE SubSeq(s, 1, a) \o SubSeq(s, b + 1, Len(s))

\* s[i] = x
PySetItem(s, i, x) == [s EXCEPT ![i + 1] = x]

\* a % b, whose result has the sign of b (b # 0)
PyMod(a, b) == IF b > 0 THEN a % b ELSE 0 - ((0 - a) % (0 - b))

\* the position s[i] names in a list of length n (negative i counts from the
\* end); the access raises IndexError unless the position is in 0..n-1
PyIndex(i, n) == IF i < 0 THEN i + n ELSE i

\* ---- faulty variants of the operations, used to test the properties ----

\* _insert that does not advance the index after overwriting
insertNoAdvance(mem, idx, cap, exp_dict) ==
  LET append == idx >= Len(mem)
      pos == PyIndex(idx, Len(mem))
  IN IF ~append /\ pos < 0
     THEN \* self._memory[self._next_idx] with the index out of range
          [memory |-> mem, next_idx |-> idx, evicted |-> <<>>, err |-> "IndexError"]
     ELSE LET memory1 == IF append THEN Append(mem, exp_dict)
                         ELSE PySetItem(mem, pos, exp_dict)
              evicted == IF append THEN <<>> ELSE <<mem[pos + 1]>>
          IN IF cap = 0
             THEN \* the modulo of line 36 raises after the list was changed
                  [memory |-> memory1, next_idx |-> idx, evicted |-> evicted,
                   err |-> "ZeroDivisionError"]
             ELSE [memory |-> memory1, next_idx |-> IF append THEN PyMod(idx + 1, cap) ELSE idx,
                   evicted |-> evicted, err |-> "none"]

\* _insert that wraps the index one position too late
insertModOff(mem, idx, cap, exp_dict) ==
  LET append == idx >= Len(mem)
      pos == PyIndex(idx, Len(mem))
  IN IF ~append /\ pos < 0
     THEN \* self._memory[self._next_idx] with the index out of range
          [memory |-> mem, next_idx |-> idx, evicted |-> <<>>, err |-> "IndexError"]
     ELSE LET memory1 == IF append THEN Append(mem, exp_dict)
                         ELSE PySetItem(mem, pos, exp_dict)
              evicted == IF append THEN <<>> ELSE <<mem[pos + 1]>>
          IN IF cap = 0
             THEN \* the modulo of line 36 raises after the list was changed
                  [memory |-> memory1, next_idx |-> idx, evicted |-> evicted,
                   err |-> "ZeroDivisionError"]
             ELSE [memory |-> memory1, next_idx |-> PyMod(idx + 1, cap + 1),
                   evicted |-> evicted, err |-> "none"]

\* _insert that never wraps the index
insertNoWrap(mem, idx, cap, exp_dict) ==
  LET append == idx >= Len(mem)
      pos == PyIndex(idx, Len(mem))
  IN IF ~append /\ pos < 0
     THEN \* self._memory[self._next_idx] with the index out of range
          [memory |-> mem, next_idx |-> idx, evicted |-> <<>>, err |-> "IndexError"]
     ELSE LET memory1 == IF append THEN Append(mem, exp_dict)
                         ELSE PySetItem(mem, pos, exp_dict)
              evicted == IF append THEN <<>> ELSE <<mem[pos + 1]>>
          IN IF cap = 0
             THEN \* the modulo of line 36 raises after the list was changed
                  [memory |-> memory1, next_idx |-> idx, evicted |-> evicted,
                   err |-> "ZeroDivisionError"]
             ELSE [memory |-> memory1, next_idx |-> idx + 1,
                   evicted |-> evicted, err |-> "none"]

\* _evict that lists the front slice before the forward span
evictFrontFirst(mem, idx, evict_size) ==
  IF evict_size > Len(mem)
  THEN [memory |-> <<>>, next_idx |-> 0, evicted |-> mem, err |-> "none"]
  ELSE LET forward_space == Len(mem) - idx IN
       IF evict_size < forward_space
       THEN LET evicted == PySlice(mem, idx, idx + evict_size)
            IN [memory |-> PyDelSlice(mem, idx, idx + evict_size),
                next_idx |-> idx,
                evicted |-> evicted,
                err |-> IF Len(evicted) = evict_size THEN "none" ELSE "AssertionError"]
       ELSE LET evict_from_left == evict_size - forward_space
                evicted == PySlice(mem, 0, evict_from_left) \o PySlice(mem, idx, Len(mem))
                memory1 == PyDelSlice(mem, idx, Len(mem))
            IN [memory |-> PyDelSlice(memory1, 0, evict_from_left),
                next_idx |-> idx - evict_from_left,
                evicted |-> evicted,
                err |-> IF Len(evicted) = evict_size THEN "none" ELSE "AssertionError"]

\* _evict whose forward_space is one too small
evictFsOff(mem, idx, evict_size) ==
  IF evict_size > Len(mem)
  THEN [memory |-> <<>>, next_idx |-> 0, evicted |-> mem, err |-> "none"]
  ELSE LET forward_space == Len(mem) - idx - 1 IN
       IF evict_size < forward_space
       THEN LET evicted == PySlice(mem, idx, idx + evict_size)
            IN [memory |-> PyDelSlice(mem, idx, idx + evict_size),
                next_idx |-> idx,
                evicted |-> evicted,
                err |-> IF Len(evicted) = evict_size THEN "none" ELSE "AssertionError"]
       ELSE LET evict_from_left == evict_size - forward_space
                evicted == PySlice(mem, idx, Len(mem)) \o PySlice(mem, 0, evict_from_left)
                memory1 == PyDelSlice(mem, idx, Len(mem))
            IN [memory |-> PyDelSlice(memory1, 0, evict_from_left),
                next_idx |-> idx - evict_from_left,
                evicted |-> evicted,
                err |-> IF Len(evicted) = evict_size THEN "none" ELSE "AssertionError"]

\* _evict whose evict_from_left is one too large
evictLeftOff(mem, idx, evict_size) ==
  IF evict_size > Len(mem)
  THEN [memory |-> <<>>, next_idx |-> 0, evicted |-> mem, err |-> "none"]
  ELSE LET forward_space == Len(mem) - idx IN
       IF evict_size < forward_space
       THEN LET evicted == PySlice(mem, idx, idx + evict_size)
            IN [memory |-> PyDelSlice(mem, idx, idx + evict_size),
                next_idx |-> idx,
                evicted |-> evicted,
                err |-> IF Len(evicted) = evict_size THEN "none" ELSE "AssertionError"]
       ELSE LET evict_from_left == evict_size - forward_space + 1
                evicted == PySlice(mem, idx, Len(mem)) \o PySlice(mem, 0, evict_from_left)
                memory1 == PyDelSlice(mem, idx, Len(mem))
            IN [memory |-> PyDelSlice(memory1, 0, evict_from_left),
                next_idx |-> idx - evict_from_left,
                evicted |-> evicted,
                err |-> IF Len(evicted) = evict_size THEN "none" ELSE "AssertionError"]

\* _evict that resets the index after removing the forward slice
evictResetIdx(mem, idx, evict_size) ==
  IF evict_size > Len(mem)
  THEN [memory |-> <<>>, next_idx |-> 0, evicted |-> mem, err |-> "none"]
  ELSE LET forward_space == Len(mem) - idx IN
       IF evict_size < forward_space
       THEN LET evicted == PySlice(mem, idx, idx + evict_size)
            IN [memory |-> PyDelSlice(mem, idx, idx + evict_size),
                next_idx |-> 0,
                evicted |-> evicted,
                err |-> IF Len(evicted) = evict_size THEN "none" ELSE "AssertionError"]
       ELSE LET evict_from_left == evict_size - forward_space
                evicted == PySlice(mem, idx, Len(mem)) \o PySlice(mem, 0, evict_from_left)
                memory1 == PyDelSlice(mem, idx, Len(mem))
            IN [memory |-> PyDelSlice(memory1, 0, evict_from_left),
                next_idx |-> idx - evict_from_left,
                evicted |-> evicted,
                err |-> IF Len(evicted) = evict_size THEN "none" ELSE "AssertionError"]

\* _evict that does not lower the index after a wraparound
evictNoDecrement(mem, idx, evict_size) ==
  IF evict_size > Len(mem)
  THEN [memory |-> <<>>, next_idx |-> 0, evicted |-> mem, err |-> "none"]
  ELSE LET forward_space == Len(mem) - idx IN
       IF evict_size < forward_space
       THEN LET evicted == PySlice(mem, idx, idx + evict_size)
            IN [memory |-> PyDelSlice(mem, idx, idx + evict_size),
                next_idx |-> idx,
                evicted |-> evicted,
                err |-> IF Len(evicted) = evict_size THEN "none" ELSE "AssertionError"]
       ELSE LET evict_from_left == evict_size - forward_space
                evicted == PySlice(mem, idx, Len(mem)) \o PySlice(mem, 0, evict_from_left)
                memory1 == PyDelSlice(mem, idx, Len(mem))
            IN [memory |-> PyDelSlice(memory1, 0, evict_from_left),
                next_idx |-> idx,
                evicted |-> evicted,
                err |-> IF Len(evicted) = evict_size THEN "none" ELSE "AssertionError"]

\* start_sample_condition with >= for >
startSampleGe(mem, start_size) == Len(mem) >= start_size

\* _evict that deletes the forward slice at the front of the list
evictDelFront(mem, idx, evict_size) ==
  IF evict_size > Len(mem)
  THEN [memory |-> <<>>, next_idx |-> 0, evicted |-> mem, err |-> "none"]
  ELSE LET forward_space == Len(mem) - idx IN
       IF evict_size < forward_space
       THEN LET evicted == PySlice(mem, idx, idx + evict_size)
            IN [memory |-> PyDelSlice(mem, 0, evict_size),
                next_idx |-> idx,
                evicted |-> evicted,
                err |-> IF Len(evicted) = evict_size THEN "none" ELSE "AssertionError"]
       ELSE LET evict_from_left == evict_size - forward_space
                evicted == PySlice(mem, idx, Len(mem)) \o PySlice(mem, 0, evict_from_left)
                memory1 == PyDelSlice(mem, idx, Len(mem))
            IN [memory |-> PyDelSlice(memory1, 0, evict_from_left),
                next_idx |-> idx - evict_from_left,
                evicted |-> evicted,
                err |-> IF Len(evicted) = evict_size THEN "none" ELSE "AssertionError"]

\* random.randint(0, len(self._memory)): the upper bound is inclusive
randintInclusive(n) == 0 .. n

\* ---- UniformReplay._insert ----
insert(mem, idx, cap, exp_dict) ==
  LET append == idx >= Len(mem)
      pos == PyIndex(idx, Len(mem))
  IN IF ~append /\ pos < 0
     THEN \* self._memory[self._next_idx] with the index out of range
          [memory |-> mem, next_idx |-> idx, evicted |-> <<>>, err |-> "IndexError"]
     ELSE LET memory1 == IF append THEN Append(mem, exp_dict)
                         ELSE PySetItem(mem, pos, exp_dict)
              evicted == IF append THEN <<>> ELSE <<mem[pos + 1]>>
          IN IF cap = 0
             THEN \* the modulo of line 36 raises after the list was changed
                  [memory |-> memory1, next_idx |-> idx, evicted |-> evicted,
                   err |-> "ZeroDivisionError"]
             ELSE [memory |-> memory1, next_idx |-> PyMod(idx + 1, cap),
                   evicted |-> evicted, err |-> "none"]

\* ---- UniformReplay._evict ----
evict(mem, idx, evict_size) ==
  IF evict_size > Len(mem)
  THEN [memory |-> <<>>, next_idx |-> 0, evicted |-> mem, err |-> "none"]
  ELSE LET forward_space == Len(mem) - idx IN
       IF evict_size < forward_space
       THEN LET evicted == PySlice(mem, idx, idx + evict_size)
            IN [memory |-> PyDelSlice(mem, idx, idx + evict_size),
                next_idx |-> idx,
                evicted |-> evicted,
                err |-> IF Len(evicted) = evict_size THEN "none" ELSE "AssertionError"]
       ELSE LET evict_from_left == evict_size - forward_space
                evicted == PySlice(mem, idx, Len(mem)) \o PySlice(mem, 0, evict_from_left)
                memory1 == PyDelSlice(mem, idx, Len(mem))
            IN [memory |-> PyDelSlice(memory1, 0, evict_from_left),
                next_idx |-> idx - evict_from_left,
                evicted |-> evicted,
                err |-> IF Len(evicted) = evict_size THEN "none" ELSE "AssertionError"]

\* ---- UniformReplay._sample ----

\* the values random.randint(0, len(self._memory) - 1) can return
randint_range(n) == 0 .. (n - 1)

\* the lists of indices the comprehension of _sample can build
sample_indices(n, batch_size) ==
  IF batch_size <= 0 THEN {<<>>} ELSE [1 .. batch_size -> randint_range(n)]

\* [self._memory[i] for i in indices]; IndexError when an index is out of range
sample(mem, indices) ==
  IF \E j \in 1 .. Len(indices) : indices[j] >= Len(mem)
  THEN [batch |-> <<>>, err |-> "IndexError"]
  ELSE [batch |-> [j \in 1 .. Len(indices) |-> mem[indices[j] + 1]], err |-> "none"]

\* ---- UniformReplay.start_sample_condition / __len__ ----
len(mem) == Len(mem)

start_sample_condition(mem, start_size) == len(mem) > start_size

\* ---- the state machine ----

\* a Kubectl object on which create has not been called
IdleKube == [pc |-> "idle", dry_run |-> FALSE, deleting |-> FALSE, retcode |-> 0,
             stderr |-> {}, elapsed |-> 0, attempts |-> 0, sleeps |-> 0,
             exc |-> "none"]

Threads == {1, 2}

\* a thread that is in no call
IdleThread == [pc |-> "idle", x |-> 0, evicted |-> <<>>, forward_space |-> 0,
               evict_from_left |-> 0, tmp |-> 0, indices |-> <<>>]


\* number of occurrences of x in the list s
Count(s, x) == Cardinality({i \in 1 .. Len(s) : s[i] = x})

\* the bookkeeping of the experiences handed back in the list evicted
Returned(evicted) == [x \in DOMAIN returned |-> returned[x] + Count(evicted, x)]

Capacities == 1 .. MaxCap
EvictSizes == 0 .. (maxsize + 1)
BatchSizes == -1 .. MaxBatch

Init ==
  /\ maxsize \in Capacities
  /\ sampling_start_size \in 0 .. MaxStart
  /\ memory = <<>>
  /\ next_idx = 0
  /\ op = "init" /\ arg = 0 /\ ret = <<>> /\ ready = FALSE /\ length = 0
  /\ err = "none"
  /\ pre_memory = <<>> /\ pre_idx = 0
  /\ ninserted = 0 /\ evict_called = FALSE
  /\ returned = [x \in 1 .. MaxInserts |-> 0]
  /\ serialized = TRUE
  /\ thr = [t \in Threads |-> IdleThread]
  /\ ncalls = 0
  /\ kube = IdleKube

Frame == /\ pre_memory' = memory /\ pre_idx' = next_idx
         /\ UNCHANGED <<maxsize, sampling_start_size, serialized, thr, ncalls, kube>>

Insert ==
  /\ ninserted < MaxInserts
  /\ LET r == insert(memory, next_idx, maxsize, ninserted + 1) IN
       /\ memory' = r.memory
       /\ next_idx' = r.next_idx
       /\ err' = r.err
       /\ ret' = IF r.err = "none" THEN r.evicted ELSE <<>>
  /\ op' = "insert" /\ arg' = ninserted + 1
  /\ ninserted' = ninserted + 1
  /\ returned' = Returned(ret')
  /\ ready' = FALSE /\ length' = 0
  /\ Frame /\ UNCHANGED evict_called

EvictOp(evict_size) ==
  /\ LET r == evict(memory, next_idx, evict_size) IN
       /\ memory' = r.memory
       /\ next_idx' = r.next_idx
       /\ err' = r.err
       /\ ret' = IF r.err = "none" THEN r.evicted ELSE <<>>
  /\ op' = "evict" /\ arg' = evict_size
  /\ evict_called' = TRUE
  /\ returned' = Returned(ret')
  /\ ready' = FALSE /\ length' = 0
  /\ Frame /\ UNCHANGED ninserted

Evict == \E evict_size \in EvictSizes : EvictOp(evict_size)

\* _sample that takes the first drawn experience out of the list
SamplePop ==
  \E batch_size \in -1 .. MaxBatch :
    /\ op' = "sample" /\ arg' = batch_size
    /\ IF batch_size > 0 /\ Len(memory) = 0
       THEN /\ err' = "ValueError" /\ ret' = <<>>
            /\ UNCHANGED memory
       ELSE \E indices \in sample_indices(Len(memory), batch_size) :
              LET r == sample(memory, indices) IN
                /\ err' = r.err /\ ret' = r.batch
                /\ memory' = IF Len(indices) = 0 THEN memory
                             ELSE PyDelSlice(memory, indices[1], indices[1] + 1)
    /\ ready' = FALSE /\ length' = 0
    /\ pre_memory' = memory /\ pre_idx' = next_idx
    /\ UNCHANGED <<maxsize, sampling_start_size, next_idx, ninserted, evict_called, returned, serialized, thr, ncalls, kube>>

\* _sample that returns an empty batch when nothing is stored
SampleEmptyReturns ==
  \E batch_size \in -1 .. MaxBatch :
    /\ op' = "sample" /\ arg' = batch_size
    /\ IF batch_size > 0 /\ Len(memory) = 0
       THEN /\ err' = "none" /\ ret' = <<>>
       ELSE \E indices \in sample_indices(Len(memory), batch_size) :
              LET r == sample(memory, indices) IN
                /\ err' = r.err /\ ret' = r.batch
    /\ ready' = FALSE /\ length' = 0
    /\ pre_memory' = memory /\ pre_idx' = next_idx
    /\ UNCHANGED <<maxsize, sampling_start_size, memory, next_idx, ninserted, evict_called, returned, serialized, thr, ncalls, kube>>

Sample ==
  \E batch_size \in BatchSizes :
    /\ op' = "sample" /\ arg' = batch_size
    /\ IF batch_size > 0 /\ Len(memory) = 0
       THEN \* random.randint(0, -1) raises ValueError
            /\ err' = "ValueError" /\ ret' = <<>>
       ELSE \E indices \in sample_indices(Len(memory), batch_size) :
              LET r == sample(memory, indices) IN
                /\ err' = r.err /\ ret' = r.batch
    /\ ready' = FALSE /\ length' = 0
    /\ Frame /\ UNCHANGED <<memory, next_idx, ninserted, evict_called, returned>>

StartSampleCondition ==
  /\ op' = "ready" /\ arg' = 0 /\ err' = "none" /\ ret' = <<>>
  /\ ready' = start_sample_condition(memory, sampling_start_size)
  /\ length' = 0
  /\ Frame /\ UNCHANGED <<memory, next_idx, ninserted, evict_called, returned>>

LenOp ==
  /\ op' = "len" /\ arg' = 0 /\ err' = "none" /\ ret' = <<>>
  /\ length' = len(memory)
  /\ ready' = FALSE
  /\ Frame /\ UNCHANGED <<memory, next_idx, ninserted, evict_called, returned>>

Next == Insert \/ Evict \/ Sample \/ StartSampleCondition \/ LenOp

Spec == Init /\ [][Next]_vars

\* ---- callers that also pass a negative evict_size ----
NegEvictSizes == (0 - MaxNeg) .. -1

EvictNeg == \E evict_size \in NegEvictSizes : EvictOp(evict_size)

NextNeg == Insert \/ Evict \/ EvictNeg \/ Sample \/ StartSampleCondition \/ LenOp

SpecNeg == Init /\ [][NextNeg]_vars

\* ---- stores built with any memory_size (__init__ does not check it) ----
AnyCapacities == (0 - MaxCap) .. MaxCap

InitAnyCap ==
  /\ maxsize \in AnyCapacities
  /\ sampling_start_size \in 0 .. MaxStart
  /\ memory = <<>>
  /\ next_idx = 0
  /\ op = "init" /\ arg = 0 /\ ret = <<>> /\ ready = FALSE /\ length = 0
  /\ err = "none"
  /\ pre_memory = <<>> /\ pre_idx = 0
  /\ ninserted = 0 /\ evict_called = FALSE
  /\ returned = [x \in 1 .. MaxInserts |-> 0]
  /\ serialized = TRUE
  /\ thr = [t \in Threads |-> IdleThread]
  /\ ncalls = 0
  /\ kube = IdleKube

SpecAnyCap == InitAnyCap /\ [][Next]_vars

\* ---- calls made from two threads, one statement at a time ----
\* Each action below is one statement of _insert, _evict or _sample executed
\* by thread t, with the local variables of the call kept in thr[t].  When
\* serialized is TRUE a call starts only while no other call is in progress.

AllIdle == \A t \in Threads : thr[t].pc = "idle"

CanStart(t) ==
  /\ thr[t].pc = "idle"
  /\ ncalls < MaxCalls
  /\ serialized => \A u \in Threads \ {t} : thr[u].pc = "idle"

\* thread t goes on to the statement pc with its locals changed to rec
Goto(t, rec, pc) ==
  /\ thr' = [thr EXCEPT ![t] = [rec EXCEPT !.pc = pc]]
  /\ UNCHANGED <<ret, err, returned>>

\* the call of thread t returns the list evicted
ReturnEvicted(t, evicted) ==
  /\ thr' = [thr EXCEPT ![t] = IdleThread]
  /\ ret' = evicted /\ err' = "none"
  /\ returned' = Returned(evicted)

\* the call of thread t raises e
Raise(t, e) ==
  /\ thr' = [thr EXCEPT ![t] = IdleThread]
  /\ ret' = <<>> /\ err' = e
  /\ UNCHANGED returned

\* what a statement inside a call leaves alone
StepFrame ==
  UNCHANGED <<maxsize, sampling_start_size, serialized, ready, length, op, arg,
              pre_memory, pre_idx, ninserted, evict_called, ncalls, kube>>

\* what the start of a call leaves alone
StartFrame ==
  /\ pre_memory' = memory /\ pre_idx' = next_idx
  /\ ncalls' = ncalls + 1
  /\ ret' = <<>> /\ err' = "none"
  /\ UNCHANGED <<memory, next_idx, maxsize, sampling_start_size, serialized,
                 ready, length, returned, kube>>

\* _insert(exp_dict) is called
StartInsert(t) ==
  /\ CanStart(t)
  /\ ninserted < MaxInserts
  /\ thr' = [thr EXCEPT ![t] = [IdleThread EXCEPT !.pc = "i_test", !.x = ninserted + 1]]
  /\ op' = "insert" /\ arg' = ninserted + 1
  /\ ninserted' = ninserted + 1
  /\ StartFrame /\ UNCHANGED evict_called

\* line 31: if self._next_idx >= len(self._memory)
InsertTest(t) ==
  /\ thr[t].pc = "i_test"
  /\ Goto(t, thr[t], IF next_idx >= Len(memory) THEN "i_append" ELSE "i_read")
  /\ StepFrame /\ UNCHANGED <<memory, next_idx>>

\* line 32: self._memory.append(exp_dict)
InsertAppend(t) ==
  /\ thr[t].pc = "i_append"
  /\ memory' = Append(memory, thr[t].x)
  /\ Goto(t, thr[t], "i_load")
  /\ StepFrame /\ UNCHANGED next_idx

\* line 34: evicted.append(self._memory[self._next_idx])
InsertRead(t) ==
  /\ thr[t].pc = "i_read"
  /\ LET pos == PyIndex(next_idx, Len(memory)) IN
       IF pos < 0 \/ pos >= Len(memory)
       THEN Raise(t, "IndexError")
       ELSE Goto(t, [thr[t] EXCEPT !.evicted = <<memory[pos + 1]>>], "i_write")
  /\ StepFrame /\ UNCHANGED <<memory, next_idx>>

\* line 35: self._memory[self._next_idx] = exp_dict
InsertWrite(t) ==
  /\ thr[t].pc = "i_write"
  /\ LET pos == PyIndex(next_idx, Len(memory)) IN
       IF pos < 0 \/ pos >= Len(memory)
       THEN Raise(t, "IndexError") /\ UNCHANGED memory
       ELSE /\ memory' = PySetItem(memory, pos, thr[t].x)
            /\ Goto(t, thr[t], "i_load")
  /\ StepFrame /\ UNCHANGED next_idx

\* line 36, right-hand side: self._next_idx is read
InsertLoadIdx(t) ==
  /\ thr[t].pc = "i_load"
  /\ Goto(t, [thr[t] EXCEPT !.tmp = next_idx], "i_store")
  /\ StepFrame /\ UNCHANGED <<memory, next_idx>>

\* the assignment of line 36 without the modulo
InsertStoreIdxNoWrap(t) ==
  /\ thr[t].pc = "i_store"
  /\ IF maxsize = 0
     THEN Raise(t, "ZeroDivisionError") /\ UNCHANGED next_idx
     ELSE /\ next_idx' = thr[t].tmp + 1
          /\ ReturnEvicted(t, thr[t].evicted)
  /\ StepFrame /\ UNCHANGED memory

\* line 36, assignment: self._next_idx = (... + 1) % self._maxsize; line 37
InsertStoreIdx(t) ==
  /\ thr[t].pc = "i_store"
  /\ IF maxsize = 0
     THEN Raise(t, "ZeroDivisionError") /\ UNCHANGED next_idx
     ELSE /\ next_idx' = PyMod(thr[t].tmp + 1, maxsize)
          /\ ReturnEvicted(t, thr[t].evicted)
  /\ StepFrame /\ UNCHANGED memory

\* _evict(evict_size) is called
StartEvict(t) ==
  \E evict_size \in EvictSizes :
    /\ CanStart(t)
    /\ thr' = [thr EXCEPT ![t] = [IdleThread EXCEPT !.pc = "e_test", !.x = evict_size]]
    /\ op' = "evict" /\ arg' = evict_size
    /\ evict_called' = TRUE
    /\ StartFrame /\ UNCHANGED ninserted

\* line 45: if evict_size > len(self._memory)
EvictTest(t) ==
  /\ thr[t].pc = "e_test"
  /\ Goto(t, thr[t], IF thr[t].x > Len(memory) THEN "e_all" ELSE "e_space")
  /\ StepFrame /\ UNCHANGED <<memory, next_idx>>

\* lines 46-47: evicted = self._memory; self._memory = []
\* (evicted is the list object itself, so it holds what the list holds when
\* self._memory is rebound)
EvictAll(t) ==
  /\ thr[t].pc = "e_all"
  /\ memory' = <<>>
  /\ Goto(t, [thr[t] EXCEPT !.evicted = memory], "e_reset")
  /\ StepFrame /\ UNCHANGED next_idx

\* lines 48-49: self._next_idx = 0; return evicted
EvictReset(t) ==
  /\ thr[t].pc = "e_reset"
  /\ next_idx' = 0
  /\ ReturnEvicted(t, thr[t].evicted)
  /\ StepFrame /\ UNCHANGED memory

\* line 50: forward_space = len(self._memory) - self._next_idx
EvictSpace(t) ==
  /\ thr[t].pc = "e_space"
  /\ Goto(t, [thr[t] EXCEPT !.forward_space = Len(memory) - next_idx],
          IF thr[t].x < Len(memory) - next_idx THEN "e_fwd" ELSE "e_wrap")
  /\ StepFrame /\ UNCHANGED <<memory, next_idx>>

\* line 52: evicted = self._memory[self._next_idx:self._next_idx+evict_size]
EvictForwardSlice(t) ==
  /\ thr[t].pc = "e_fwd"
  /\ Goto(t, [thr[t] EXCEPT !.evicted = PySlice(memory, next_idx, next_idx + thr[t].x)],
          "e_fwd_del")
  /\ StepFrame /\ UNCHANGED <<memory, next_idx>>

\* line 53: del self._memory[self._next_idx:self._next_idx+evict_size]
EvictForwardDel(t) ==
  /\ thr[t].pc = "e_fwd_del"
  /\ memory' = PyDelSlice(memory, next_idx, next_idx + thr[t].x)
  /\ Goto(t, thr[t], "e_assert")
  /\ StepFrame /\ UNCHANGED next_idx

\* line 55: evicted = self._memory[self._next_idx:]
EvictWrapSlice(t) ==
  /\ thr[t].pc = "e_wrap"
  /\ Goto(t, [thr[t] EXCEPT !.evicted = PySlice(memory, next_idx, Len(memory))], "e_left")
  /\ StepFrame /\ UNCHANGED <<memory, next_idx>>

\* lines 56-57: evict_from_left = evict_size - forward_space;
\*              evicted += self._memory[:evict_from_left]
EvictLeftSlice(t) ==
  /\ thr[t].pc = "e_left"
  /\ LET evict_from_left == thr[t].x - thr[t].forward_space IN
       Goto(t, [thr[t] EXCEPT !.evict_from_left = evict_from_left,
                              !.evicted = @ \o PySlice(memory, 0, evict_from_left)],
            "e_del_tail")
  /\ StepFrame /\ UNCHANGED <<memory, next_idx>>

\* line 58: del self._memory[self._next_idx:]
EvictDelTail(t) ==
  /\ thr[t].pc = "e_del_tail"
  /\ memory' = PyDelSlice(memory, next_idx, Len(memory))
  /\ Goto(t, thr[t], "e_del_left")
  /\ StepFrame /\ UNCHANGED next_idx

\* line 59: del self._memory[:evict_from_left]
EvictDelLeft(t) ==
  /\ thr[t].pc = "e_del_left"
  /\ memory' = PyDelSlice(memory, 0, thr[t].evict_from_left)
  /\ Goto(t, thr[t], "e_sub")
  /\ StepFrame /\ UNCHANGED next_idx

\* line 60: self._next_idx -= evict_from_left
EvictSubIdx(t) ==
  /\ thr[t].pc = "e_sub"
  /\ next_idx' = next_idx - thr[t].evict_from_left
  /\ Goto(t, thr[t], "e_assert")
  /\ StepFrame /\ UNCHANGED memory

\* lines 61-62: assert len(evicted) == evict_size; return evicted
EvictAssert(t) ==
  /\ thr[t].pc = "e_assert"
  /\ IF Len(thr[t].evicted) = thr[t].x
     THEN ReturnEvicted(t, thr[t].evicted)
     ELSE Raise(t, "AssertionError")
  /\ StepFrame /\ UNCHANGED <<memory, next_idx>>

\* _sample(batch_size, batch_i) is called
StartSample(t) ==
  \E batch_size \in BatchSizes :
    /\ CanStart(t)
    /\ thr' = [thr EXCEPT ![t] = [IdleThread EXCEPT !.pc = "s_draw", !.x = batch_size]]
    /\ op' = "sample" /\ arg' = batch_size
    /\ StartFrame /\ UNCHANGED <<ninserted, evict_called>>

\* lines 40-41: the indices are drawn
SampleDraw(t) ==
  /\ thr[t].pc = "s_draw"
  /\ IF thr[t].x > 0 /\ Len(memory) = 0
     THEN Raise(t, "ValueError")
     ELSE \E indices \in sample_indices(Len(memory), thr[t].x) :
            Goto(t, [thr[t] EXCEPT !.indices = indices], "s_read")
  /\ StepFrame /\ UNCHANGED <<memory, next_idx>>

\* line 42: return [self._memory[i] for i in indices]
SampleRead(t) ==
  /\ thr[t].pc = "s_read"
  /\ LET r == sample(memory, thr[t].indices) IN
       /\ thr' = [thr EXCEPT ![t] = IdleThread]
       /\ ret' = r.batch /\ err' = r.err
       /\ UNCHANGED returned
  /\ StepFrame /\ UNCHANGED <<memory, next_idx>>

NextThreads ==
  \E t \in Threads :
    \/ StartInsert(t) \/ InsertTest(t) \/ InsertAppend(t) \/ InsertRead(t)
    \/ InsertWrite(t) \/ InsertLoadIdx(t) \/ InsertStoreIdx(t)
    \/ StartEvict(t) \/ EvictTest(t) \/ EvictAll(t) \/ EvictReset(t)
    \/ EvictSpace(t) \/ EvictForwardSlice(t) \/ EvictForwardDel(t)
    \/ EvictWrapSlice(t) \/ EvictLeftSlice(t) \/ EvictDelTail(t)
    \/ EvictDelLeft(t) \/ EvictSubIdx(t) \/ EvictAssert(t)
    \/ StartSample(t) \/ SampleDraw(t) \/ SampleRead(t)

InitThreads ==
  /\ maxsize \in Capacities
  /\ serialized \in BOOLEAN
  /\ sampling_start_size = 0
  /\ memory = <<>>
  /\ next_idx = 0
  /\ op = "init" /\ arg = 0 /\ ret = <<>> /\ ready = FALSE /\ length = 0
  /\ err = "none"
  /\ pre_memory = <<>> /\ pre_idx = 0
  /\ ninserted = 0 /\ evict_called = FALSE
  /\ returned = [x \in 1 .. MaxInserts |-> 0]
  /\ thr = [t \in Threads |-> IdleThread]
  /\ ncalls = 0
  /\ kube = IdleKube

SpecThreads == InitThreads /\ [][NextThreads]_vars

\* ---- Kubectl.create and its create loop ----
\* kube.deleting is the state of the cluster: the old resource of the
\* experiment is still being deleted.  kube.retcode and kube.stderr are what
\* the last `kubectl create -f` gave; of stderr only the two texts the code
\* looks for are kept.  kube.elapsed is time.time() - self._loop_start_time in
\* seconds, advanced by the sleeps of the event loop.

PollInterval == 5
WarnAfter == 30

StderrTexts == {"is being deleted", "AlreadyExists"}

\* the results `kubectl create -f` can give in the present state of the cluster
CreateResults ==
  {r \in [retcode : {0, 1}, stderr : SUBSET StderrTexts] :
     ~kube.deleting => "is being deleted" \notin r.stderr}

Inc(n) == IF n < MaxAttempts THEN n + 1 ELSE n

\* _create_loop that asks for another attempt after every failure
createLoopRetryAnyError(retcode, stderr) ==
  IF retcode # 0 THEN FALSE ELSE TRUE

\* the value _create_loop returns: TRUE ends the event loop
create_loop(retcode, stderr) ==
  IF retcode # 0
  THEN IF "is being deleted" \in stderr THEN FALSE ELSE TRUE
  ELSE TRUE

\* self._loop_start_time after _create_loop, as the seconds elapsed since then
loop_elapsed(retcode, stderr, elapsed) ==
  IF retcode # 0 /\ "is being deleted" \in stderr /\ elapsed > WarnAfter
  THEN 0 ELSE elapsed

KubeFrame ==
  UNCHANGED <<memory, next_idx, maxsize, sampling_start_size, op, arg, ret, ready,
              length, err, pre_memory, pre_idx, ninserted, evict_called, returned,
              serialized, thr, ncalls>>

\* create up to the start of the event loop
KubeCreate ==
  /\ kube.pc = "idle"
  /\ \E valid_dns, file_exists \in BOOLEAN :
       kube' = IF ~valid_dns
               THEN [kube EXCEPT !.pc = "raised", !.exc = "ValueError"]
               ELSE IF file_exists
               THEN [kube EXCEPT !.pc = "raised", !.exc = "FileExistsError"]
               ELSE IF kube.dry_run
               THEN [kube EXCEPT !.pc = "done"]
               ELSE [kube EXCEPT !.pc = "attempt", !.elapsed = 0]
  /\ KubeFrame

\* one call of _create_loop by run_event_loop
KubeAttempt ==
  /\ kube.pc = "attempt"
  /\ \E r \in CreateResults :
       kube' = [kube EXCEPT
                  !.retcode = r.retcode,
                  !.stderr = r.stderr,
                  !.attempts = Inc(kube.attempts),
                  !.elapsed = loop_elapsed(r.retcode, r.stderr, kube.elapsed),
                  !.pc = IF create_loop(r.retcode, r.stderr) THEN "done" ELSE "sleep"]
  /\ KubeFrame

\* time.sleep(poll_interval) of run_event_loop
KubeSleep ==
  /\ kube.pc = "sleep"
  /\ kube' = [kube EXCEPT !.pc = "attempt",
                          !.sleeps = Inc(kube.sleeps),
                          !.elapsed = kube.elapsed + PollInterval]
  /\ KubeFrame

\* the cluster finishes deleting the old resource
KubeDeletionCompletes ==
  /\ kube.deleting
  /\ kube' = [kube EXCEPT !.deleting = FALSE]
  /\ KubeFrame

NextKube == KubeCreate \/ KubeAttempt \/ KubeSleep \/ KubeDeletionCompletes

InitKube ==
  /\ kube \in {[IdleKube EXCEPT !.dry_run = d, !.deleting = g] : d, g \in BOOLEAN}
  /\ maxsize = 1
  /\ sampling_start_size = 0
  /\ memory = <<>>
  /\ next_idx = 0
  /\ op = "init" /\ arg = 0 /\ ret = <<>> /\ ready = FALSE /\ length = 0
  /\ err = "none"
  /\ pre_memory = <<>> /\ pre_idx = 0
  /\ ninserted = 0 /\ evict_called = FALSE
  /\ returned = [x \in 1 .. MaxInserts |-> 0]
  /\ serialized = TRUE
  /\ thr = [t \in Threads |-> IdleThread]
  /\ ncalls = 0

\* the event loop is straight-line code: an attempt that is due is made and
\* a sleep that was started ends
SpecKube ==
  InitKube /\ [][NextKube]_vars /\ WF_vars(KubeAttempt) /\ WF_vars(KubeSleep)

\* ---- properties ----

\* the experiences of s listed by insertion time, oldest first
\* (the i-th experience inserted is the number i)
OldestFirst(s) == SortSeq(s, LAMBDA x, y : x < y)

Range(s) == {s[i] : i \in 1 .. Len(s)}

Min(a, b) == IF a < b THEN a ELSE b

\* C1: _insert returns a list of length 0 or 1, and a returned experience is
\* the least-recently-inserted one of those held right before the call.
C1_InsertDisplacesOldest ==
  op = "insert" =>
    /\ Len(ret) \in {0, 1}
    /\ Len(ret) = 1 =>
         /\ ret[1] \in Range(pre_memory)
         /\ \A x \in Range(pre_memory) : ret[1] <= x

C1_Witness ==
  /\ op = "insert" /\ Len(ret) = 1
  /\ pre_idx > 0 /\ Len(pre_memory) >= 2

\* C2: whenever len(_memory) < _maxsize the index equals len(_memory), and an
\* _insert made in such a state appends: nothing is returned, the length grows
\* by one and the new experience is the last element.
C2_InsertAppendsBelowCapacity ==
  /\ Len(memory) < maxsize => next_idx = Len(memory)
  /\ (op = "insert" /\ Len(pre_memory) < maxsize) =>
       /\ pre_idx = Len(pre_memory)
       /\ ret = <<>>
       /\ Len(memory) = Len(pre_memory) + 1
       /\ memory[Len(memory)] = arg

\* C3: in a run of inserts only, the first _maxsize inserts return [] and the
\* i-th leaves i experiences; the i-th insert for i > _maxsize returns exactly
\* the (i - _maxsize)-th experience inserted and the length stays _maxsize.
C3_InsertOnlyRun ==
  (op = "insert" /\ ~evict_called) =>
    IF ninserted <= maxsize
    THEN ret = <<>> /\ Len(memory) = ninserted
    ELSE ret = <<ninserted - maxsize>> /\ Len(memory) = maxsize

C3_Witness ==
  /\ op = "insert" /\ ~evict_called
  /\ maxsize >= 2 /\ ninserted > maxsize + 1
  /\ ret = <<ninserted - maxsize>>

\* C4: _evict(n) with 0 <= n <= len(_memory) returns exactly the n
\* least-recently-inserted experiences, oldest first, and what stays is
\* exactly the len - n most recently inserted ones.
C4_EvictOldestFirst ==
  (op = "evict" /\ arg >= 0 /\ arg <= Len(pre_memory)) =>
    /\ err = "none"
    /\ ret = SubSeq(OldestFirst(pre_memory), 1, arg)
    /\ Len(memory) = Len(pre_memory) - arg
    /\ OldestFirst(memory) = SubSeq(OldestFirst(pre_memory), arg + 1, Len(pre_memory))

\* the wraparound case: part of the result comes from the front of the list
C4_Witness ==
  /\ op = "evict" /\ err = "none"
  /\ arg < Len(pre_memory)
  /\ pre_idx < Len(pre_memory)
  /\ arg > Len(pre_memory) - pre_idx
  /\ Len(ret) = arg

\* C5: _evict(n) with n >= len(_memory) does not raise, empties the store,
\* resets the index to 0 and returns the previous contents oldest first; with
\* n > len(_memory) it does what _evict(len(_memory)) does in the same state.
C5_EvictAllOldestFirst ==
  /\ (op = "evict" /\ arg >= Len(pre_memory)) =>
       /\ err = "none"
       /\ memory = <<>> /\ next_idx = 0
       /\ ret = OldestFirst(pre_memory)
  /\ \A n \in EvictSizes :
       n > Len(memory) => evict(memory, next_idx, n) = evict(memory, next_idx, Len(memory))

\* C6: _evict(a) followed by _evict(b) returns lists whose concatenation is
\* the list one _evict(min(a + b, len)) returns, and ends in the same state.
C6_EvictTwiceAsOnce ==
  \A a, b \in EvictSizes :
    LET r1 == evict(memory, next_idx, a)
        r2 == evict(r1.memory, r1.next_idx, b)
        r == evict(memory, next_idx, Min(a + b, Len(memory)))
    IN /\ r1.evicted \o r2.evicted = r.evicted
       /\ r2.memory = r.memory
       /\ r2.next_idx = r.next_idx

\* C7: _evict(0) returns [] and leaves _memory and _next_idx as they were.
C7_EvictZeroNoOp ==
  (op = "evict" /\ arg = 0) =>
    /\ err = "none" /\ ret = <<>>
    /\ memory = pre_memory /\ next_idx = pre_idx

\* an _evict(0) made with the index at the end of a non-empty, non-full list
C7_Witness ==
  /\ op = "evict" /\ arg = 0 /\ err = "none"
  /\ Len(pre_memory) > 0 /\ pre_idx = Len(pre_memory)

\* C8: len(_memory) <= _maxsize and 0 <= _next_idx < _maxsize.
C8_Bounds ==
  /\ Len(memory) <= maxsize
  /\ 0 <= next_idx /\ next_idx < maxsize

\* a wraparound eviction has just lowered the index
C8_Witness ==
  /\ op = "evict" /\ arg > 0
  /\ next_idx < pre_idx /\ next_idx > 0
  /\ Len(memory) <= maxsize

\* C9: _sample(k) with k >= 1 on a non-empty store returns exactly k
\* experiences, each of them held in _memory.
C9_SampleFromMemory ==
  (op = "sample" /\ arg >= 1 /\ Len(pre_memory) >= 1) =>
    /\ err = "none"
    /\ Len(ret) = arg
    /\ \A j \in 1 .. Len(ret) : ret[j] \in Range(memory)

\* more experiences asked for than are held
C9_Witness ==
  /\ op = "sample" /\ err = "none"
  /\ arg > Len(memory) /\ Len(memory) >= 1
  /\ Len(ret) = arg

\* C10: _sample, start_sample_condition and __len__ leave _memory and
\* _next_idx unchanged, whether they return or raise.
C10_QueriesReadOnly ==
  op \in {"sample", "ready", "len"} =>
    memory = pre_memory /\ next_idx = pre_idx

C10_Witness ==
  /\ op = "sample" /\ err = "none"
  /\ Len(ret) = 2 /\ ret[1] = ret[2]
  /\ Len(memory) >= 2 /\ memory = pre_memory

\* C11: start_sample_condition returns true exactly when len(_memory) is
\* strictly greater than _sampling_start_size, also after an eviction.
C11_ReadyStrictlyAbove ==
  op = "ready" =>
    /\ ready = (Len(memory) > sampling_start_size)
    /\ Len(memory) = sampling_start_size => ~ready
    /\ Len(memory) = sampling_start_size + 1 => ready

\* not ready at the threshold, reached by an eviction
C11_Witness ==
  /\ op = "ready" /\ ~ready
  /\ evict_called /\ sampling_start_size >= 1
  /\ Len(memory) = sampling_start_size

\* C13: _sample with a positive batch_size on an empty store raises instead of
\* returning experiences, and _evict(n) with n >= len(_memory) leaves the
\* store empty.
C13_SampleEmptyFails ==
  /\ (op = "sample" /\ arg >= 1 /\ Len(pre_memory) = 0) =>
       err # "none" /\ ret = <<>>
  /\ (op = "evict" /\ arg >= Len(pre_memory)) => Len(memory) = 0

\* _sample fails on a store emptied by an eviction
C13_Witness ==
  /\ op = "sample" /\ arg >= 1 /\ err = "ValueError"
  /\ evict_called /\ ninserted >= 2
  /\ Len(memory) = 0

\* C14: _sample with batch_size <= 0 raises in every state.
C14_SampleNonPositiveRejected ==
  (op = "sample" /\ arg <= 0) => err # "none"

\* C17: for 0 <= n <= len(_memory) the assertion len(evicted) == evict_size
\* of _evict holds and the length drops by exactly n.
C17_EvictAssertHolds ==
  (op = "evict" /\ arg >= 0 /\ arg <= Len(pre_memory)) =>
    /\ err # "AssertionError"
    /\ Len(ret) = arg
    /\ Len(memory) + arg = Len(pre_memory)

\* everything is evicted through the wraparound branch
C17_Witness ==
  /\ op = "evict" /\ err = "none"
  /\ arg = Len(pre_memory) /\ arg >= 2
  /\ pre_idx > 0 /\ pre_idx < Len(pre_memory)

\* C18: after _evict(n) with 0 < n < len(_memory) - _next_idx the index is
\* unchanged and _memory[_next_idx] is the oldest experience left.
C18_ForwardEvictKeepsOldestAtIndex ==
  (op = "evict" /\ arg > 0 /\ arg < Len(pre_memory) - pre_idx) =>
    /\ next_idx = pre_idx
    /\ next_idx >= 0 /\ next_idx < Len(memory)
    /\ \A x \in Range(memory) : memory[next_idx + 1] <= x

C18_Witness ==
  /\ op = "evict" /\ arg > 0 /\ arg < Len(pre_memory) - pre_idx
  /\ pre_idx > 0
  /\ memory[next_idx + 1] < memory[1]

\* C19: _next_idx <= len(_memory), and _memory[_next_idx:] followed by
\* _memory[:_next_idx] lists the experiences held in insertion order.
C19_OrderingInvariant ==
  /\ next_idx <= Len(memory)
  /\ PySlice(memory, next_idx, Len(memory)) \o PySlice(memory, 0, next_idx)
       = OldestFirst(memory)

\* a store filled up again after an eviction, the oldest in the middle
C19_Witness ==
  /\ op = "insert" /\ evict_called
  /\ Len(memory) = maxsize /\ maxsize >= 3
  /\ next_idx > 0 /\ next_idx < Len(memory) - 1

\* C20: every experience inserted so far is either held in _memory exactly
\* once or was returned exactly once by an _insert or _evict call, never both
\* and never neither.
C20_Conservation ==
  \A x \in 1 .. ninserted : Count(memory, x) + returned[x] = 1

\* experiences have left through _insert and through _evict, others are held
C20_Witness ==
  /\ op = "evict" /\ Len(ret) >= 1 /\ Len(memory) >= 1
  /\ \E x \in 1 .. ninserted : returned[x] = 1 /\ x \notin Range(ret) /\ x > 1
  /\ \A x \in 1 .. ninserted : Count(memory, x) + returned[x] = 1

\* C12: _evict with a negative evict_size raises, and leaves _memory and
\* _next_idx as they were.
C12_NegativeEvictRejected ==
  (op = "evict" /\ arg < 0) =>
    /\ err # "none"
    /\ memory = pre_memory /\ next_idx = pre_idx

\* C15: a store with memory_size <= 0 is rejected when it is built, so
\* _insert never runs on a store whose _maxsize is not positive.
C15_NonPositiveCapacityRejected ==
  maxsize <= 0 => op # "insert"

\* C16: when every call runs under the lock (serialized), each finished call
\* has done exactly what the whole operation does in one step, and no state
\* between calls breaks a store invariant: the length is at most _maxsize,
\* the index is in range and names the oldest experience, and no call has hit
\* an index outside the list.  (Without the lock such states are reached:
\* C16_Witness.)
C16_SerializedKeepsInvariants ==
  (serialized /\ AllIdle) =>
    /\ Len(memory) <= maxsize
    /\ 0 <= next_idx /\ next_idx < maxsize /\ next_idx <= Len(memory)
    /\ PySlice(memory, next_idx, Len(memory)) \o PySlice(memory, 0, next_idx)
         = OldestFirst(memory)
    /\ err \notin {"IndexError", "AssertionError"}
    /\ \A x \in 1 .. ninserted : Count(memory, x) + returned[x] = 1
    /\ op = "insert" =>
         LET r == insert(pre_memory, pre_idx, maxsize, arg)
         IN memory = r.memory /\ next_idx = r.next_idx /\ err = r.err /\ ret = r.evicted
    /\ op = "evict" =>
         LET r == evict(pre_memory, pre_idx, arg)
         IN memory = r.memory /\ next_idx = r.next_idx /\ err = r.err /\ ret = r.evicted
    /\ op = "sample" =>
         /\ memory = pre_memory /\ next_idx = pre_idx
         /\ \A j \in 1 .. Len(ret) : ret[j] \in Range(memory)

\* two appends that raced have left more experiences than _maxsize
C16_Witness ==
  /\ ~serialized /\ AllIdle
  /\ Len(memory) > maxsize

\* the store after k consecutive _insert calls made from (mem, idx)
RECURSIVE AfterInserts(_, _, _, _)
AfterInserts(mem, idx, cap, k) ==
  IF k = 0 THEN [memory |-> mem, next_idx |-> idx]
  ELSE LET r == insert(mem, idx, cap, 0)
       IN AfterInserts(r.memory, r.next_idx, cap, k - 1)

\* C21: consecutive inserts never lower len(_memory); from a store that is
\* not full the length first reaches _maxsize after exactly
\* _maxsize - _next_idx inserts (so after at most _maxsize), and a full store
\* stays full under inserts.
C21_Refill ==
  /\ op = "insert" => Len(memory) >= Len(pre_memory)
  /\ (op = "insert" /\ Len(pre_memory) = maxsize) => Len(memory) = maxsize
  /\ \A k \in 0 .. maxsize :
       LET s == AfterInserts(memory, next_idx, maxsize, k)
           t == AfterInserts(memory, next_idx, maxsize, k + 1)
       IN /\ Len(t.memory) >= Len(s.memory)
          /\ k = maxsize => Len(s.memory) = maxsize
          /\ Len(memory) < maxsize =>
               (Len(s.memory) = maxsize <=> k >= maxsize - next_idx)

\* a store filled again by a run of _maxsize inserts after an eviction
C21_Witness ==
  /\ op = "insert" /\ evict_called
  /\ Len(memory) = maxsize /\ Len(pre_memory) = maxsize - 1
  /\ maxsize >= 2 /\ ret = <<>>
  /\ next_idx = 0 /\ memory[1] = arg - maxsize + 1

\* C22: the create loop sleeps and tries again only after an attempt that
\* failed with 'is being deleted' in stderr, one attempt per sleep; it ends at
\* the first attempt that succeeds or fails without that text (AlreadyExists
\* included), so it never ends on an attempt reporting the deletion, and once
\* the deletion of the old resource is complete the loop ends.
C22_CreateLoop ==
  /\ [](kube.pc = "sleep" =>
          kube.retcode # 0 /\ "is being deleted" \in kube.stderr)
  /\ []((kube.pc = "done" /\ ~kube.dry_run) =>
          /\ kube.attempts >= 1
          /\ ~(kube.retcode # 0 /\ "is being deleted" \in kube.stderr))
  /\ [](kube.sleeps < MaxAttempts =>
          kube.attempts = IF kube.pc \in {"sleep", "done"} /\ ~kube.dry_run
                          THEN Inc(kube.sleeps) ELSE kube.sleeps)
  /\ ((kube.pc \in {"attempt", "sleep"} /\ ~kube.deleting) ~> (kube.pc = "done"))

\* the loop waited for the deletion and ended on AlreadyExists
C22_Witness ==
  /\ kube.pc = "done" /\ ~kube.dry_run /\ ~kube.deleting
  /\ kube.sleeps >= 2
  /\ kube.retcode # 0 /\ "AlreadyExists" \in kube.stderr

====
